---- MODULE Spec2Model ----
(***************************************************************************)
(* Backtest simulation engine of fyers_trading_strategy: the simulation    *)
(* loop of Backtester.run_backtest, the ledger operations _execute_trade   *)
(* and _handle_eod_exits, the option selector _find_option and the signal  *)
(* and exit rules of strategies.py.                                        *)
(*                                                                         *)
(* Money and prices are integers.  Fractions of the configuration are kept *)
(* as percentages and deltas as tenths, so that every comparison the code  *)
(* makes on floats is made here on exact integers.                         *)
(***************************************************************************)
EXTENDS Integers, Sequences, FiniteSets, TLC

(***************************************************************************)
(* Bounds of the model.                                                    *)
(***************************************************************************)
\* candles of the underlying series beyond the lookback floor
MaxTail == 2

(***************************************************************************)
(* Program constants.                                                      *)
(***************************************************************************)
\* DirectionalStrategy.__init__ defaults
short_ma_period == 21
long_ma_period == 55
rsi_period == 14
\* RSI centerline of check_entry_signal
RsiCenter == 50
\* datetime.date of a timestamp: seconds in a calendar day
SecondsPerDay == 86400
\* margin of a short straddle: 20% of the higher strike
StraddleMarginPct == 20
\* config.py (not part of the sources): fractions as percentages
SL_PERCENTAGE == 20
TP_PERCENTAGE == 80
INDIA_VIX_THRESHOLD == 18
CAPITAL_ALLOCATION_PERCENTAGE == 50

(***************************************************************************)
(* Option contracts and chain snapshots the data provider may return.      *)
(***************************************************************************)
Opt(sym, type, strike, ltpv, d) ==
    [symbol |-> sym, option_type |-> type, strike_price |-> strike,
     ltp |-> ltpv, delta |-> d]

\* Python's None for an option
NoneOpt == Opt("None", "None", 0, 0, 0)

PA == Opt("PA", "PE", 100, 6, -6)
PB == Opt("PB", "PE", 90, 2, -3)
CA == Opt("CA", "CE", 100, 6, 6)
CB == Opt("CB", "CE", 110, 2, 3)
\* the same contracts in a snapshot where the far strikes trade higher
PAcheap == Opt("PA", "PE", 100, 2, -6)
PBrich == Opt("PB", "PE", 90, 6, -3)
\* contracts of a far higher strike
PH == Opt("PA", "PE", 200, 6, -5)
CH == Opt("CA", "CE", 200, 6, 5)

\* get_option_chain: response["data"], or None
Chain(opts) == [present |-> TRUE, options_chain |-> opts]
NoneChain == [present |-> FALSE, options_chain |-> << >>]

Chains ==
    { NoneChain,
      Chain(<< PA, PB, CA, CB >>),
      Chain(<< CA, CB >>),
      Chain(<< PA, CA >>),
      Chain(<< PAcheap, PBrich, CA, CB >>),
      Chain(<< PH, CH >>) }

Symbols == {"PA", "PB", "CA", "CB"}

\* get_historical_data for one option and one day: [] is << >>, a daily
\* candle is << close >>.  One element per settled day: the data the provider
\* has for each option on that day.
DayData(pa, pb, ca, cb) == [sym \in Symbols |->
    IF sym = "PA" THEN pa ELSE IF sym = "PB" THEN pb
    ELSE IF sym = "CA" THEN ca ELSE cb]

Fetches ==
    { DayData(<< >>, << >>, << >>, << >>),
      DayData(<< 6 >>, << 2 >>, << 6 >>, << 2 >>),
      DayData(<< 2 >>, << 8 >>, << 2 >>, << 8 >>),
      DayData(<< 2 >>, << 40 >>, << 2 >>, << 40 >>),
      DayData(<< 8 >>, << 2 >>, << 8 >>, << 2 >>),
      DayData(<< 2 >>, << 6 >>, << 2 >>, << 6 >>),
      DayData(<< 6 >>, << 8 >>, << 6 >>, << >>),
      DayData(<< >>, << 2 >>, << 2 >>, << 6 >>) }

Strategies == {"Bull Put Spread", "Bear Call Spread", "Short Straddle"}

Abs(x) == IF x < 0 THEN -x ELSE x
\* the smaller of the two taken for the larger
Max_Min(a, b) == IF a < b THEN a ELSE b
Max(a, b) == IF a > b THEN a ELSE b

(***************************************************************************)
(* Backtester._find_option                                                 *)
(***************************************************************************)
\* the comparison taken as <=: the last of several equally close contracts
RECURSIVE FindScan_LastWins(_, _, _, _, _, _, _)
FindScan_LastWins(opts, k, target_delta, option_type, best_option, min_is_inf, min_delta_diff) ==
    IF k > Len(opts) THEN best_option
    ELSE LET option == opts[k]
             delta_diff == Abs(Abs(option.delta) - target_delta)
         IN  IF option.option_type # option_type
             THEN FindScan_LastWins(opts, k + 1, target_delta, option_type,
                                    best_option, min_is_inf, min_delta_diff)
             ELSE IF min_is_inf \/ delta_diff <= min_delta_diff
                  THEN FindScan_LastWins(opts, k + 1, target_delta, option_type,
                                         option, FALSE, delta_diff)
                  ELSE FindScan_LastWins(opts, k + 1, target_delta, option_type,
                                         best_option, min_is_inf, min_delta_diff)

RECURSIVE FindScan(_, _, _, _, _, _, _)
FindScan(opts, k, target_delta, option_type, best_option, min_is_inf, min_delta_diff) ==
    IF k > Len(opts) THEN best_option
    ELSE LET option == opts[k]
             delta_diff == Abs(Abs(option.delta) - target_delta)
         IN  IF option.option_type # option_type
             THEN FindScan(opts, k + 1, target_delta, option_type,
                           best_option, min_is_inf, min_delta_diff)
             ELSE IF min_is_inf \/ delta_diff < min_delta_diff
                  THEN FindScan(opts, k + 1, target_delta, option_type,
                                option, FALSE, delta_diff)
                  ELSE FindScan(opts, k + 1, target_delta, option_type,
                                best_option, min_is_inf, min_delta_diff)

_find_option(option_chain, target_delta, option_type) ==
    FindScan(option_chain.options_chain, 1, target_delta, option_type,
             NoneOpt, TRUE, 0)

(***************************************************************************)
(* Strategy.check_exit_conditions                                          *)
(***************************************************************************)
\* the stop-loss comparison taken as <
check_exit_conditions_Strict(position) ==
    LET pnl == position.pnl
        initial_premium == position.entry_premium
    IN  IF pnl * 100 < -1 * SL_PERCENTAGE * initial_premium THEN "SL"
        ELSE IF pnl * 100 >= TP_PERCENTAGE * initial_premium THEN "TP"
        ELSE "None"

check_exit_conditions(position) ==
    LET pnl == position.pnl
        initial_premium == position.entry_premium
    IN  IF pnl * 100 <= -1 * SL_PERCENTAGE * initial_premium THEN "SL"
        ELSE IF pnl * 100 >= TP_PERCENTAGE * initial_premium THEN "TP"
        ELSE "None"

(***************************************************************************)
(* NonDirectionalStrategy.check_entry_signal                               *)
(***************************************************************************)
\* the threshold itself taken as a signal
NonDirSignal_AtThreshold(vix_value) ==
    IF vix_value >= INDIA_VIX_THRESHOLD THEN "Short Straddle" ELSE "None"

NonDirSignal(vix_value) ==
    IF vix_value > INDIA_VIX_THRESHOLD THEN "Short Straddle" ELSE "None"

(***************************************************************************)
(* The ledger: cash, the open positions, the trade history.  A position is *)
(* a Python dict shared by reference between self.positions and            *)
(* self.trades: heap[id] is the dict, the two lists hold ids.              *)
(***************************************************************************)
Ledger(c, ps, ts, h) == [cash |-> c, positions |-> ps, trades |-> ts, heap |-> h]

Leg(action, option) == [action |-> action, option |-> option]

\* the dict built at "Create position"
NewPosition(strategy_type, trade_legs, net_premium, margin_required) ==
    [strategy |-> strategy_type, legs |-> trade_legs,
     entry_premium |-> net_premium, margin_required |-> margin_required,
     pnl |-> 0, status |-> "OPEN"]

\* legs, net premium and margin per strategy; found is FALSE when a leg is None
TradeTerms(strategy_type, option_chain) ==
    IF strategy_type = "Bull Put Spread" THEN
        LET put_to_sell == _find_option(option_chain, 6, "PE")
            put_to_buy == _find_option(option_chain, 3, "PE")
            net_premium == put_to_sell.ltp - put_to_buy.ltp
        IN  [found |-> put_to_sell # NoneOpt /\ put_to_buy # NoneOpt,
             trade_legs |-> << Leg("SELL", put_to_sell), Leg("BUY", put_to_buy) >>,
             net_premium |-> net_premium,
             margin_required |->
                 (put_to_sell.strike_price - put_to_buy.strike_price) - net_premium]
    ELSE IF strategy_type = "Bear Call Spread" THEN
        LET call_to_sell == _find_option(option_chain, 6, "CE")
            call_to_buy == _find_option(option_chain, 3, "CE")
            net_premium == call_to_sell.ltp - call_to_buy.ltp
        IN  [found |-> call_to_sell # NoneOpt /\ call_to_buy # NoneOpt,
             trade_legs |-> << Leg("SELL", call_to_sell), Leg("BUY", call_to_buy) >>,
             net_premium |-> net_premium,
             margin_required |->
                 (call_to_buy.strike_price - call_to_sell.strike_price) - net_premium]
    ELSE IF strategy_type = "Short Straddle" THEN
        LET atm_call == _find_option(option_chain, 5, "CE")
            atm_put == _find_option(option_chain, 5, "PE")
        IN  [found |-> atm_call # NoneOpt /\ atm_put # NoneOpt,
             trade_legs |-> << Leg("SELL", atm_call), Leg("SELL", atm_put) >>,
             net_premium |-> atm_call.ltp + atm_put.ltp,
             margin_required |->
                 (Max(atm_call.strike_price, atm_put.strike_price)
                     * StraddleMarginPct) \div 100]
    ELSE [found |-> TRUE, trade_legs |-> << >>, net_premium |-> 0,
          margin_required |-> 0]

\* a gate that lets a margin of exactly zero through
TradeOutcome_ZeroMargin(L, initial_capital, strategy_type, option_chain) ==
    LET t == TradeTerms(strategy_type, option_chain)
    IN  IF ~option_chain.present THEN "no_chain"
        ELSE IF ~t.found THEN "no_leg"
        ELSE IF t.margin_required < 0 \/ t.margin_required > L.cash
        THEN "no_cash"
        ELSE IF t.margin_required * 100 > initial_capital * CAPITAL_ALLOCATION_PERCENTAGE
        THEN "over_allocation"
        ELSE "executed"

\* a gate without the per-trade allocation cap
TradeOutcome_NoCap(L, initial_capital, strategy_type, option_chain) ==
    LET t == TradeTerms(strategy_type, option_chain)
    IN  IF ~option_chain.present THEN "no_chain"
        ELSE IF ~t.found THEN "no_leg"
        ELSE IF t.margin_required <= 0 \/ t.margin_required > L.cash
        THEN "no_cash"
        ELSE "executed"

\* which return of _execute_trade is taken
TradeOutcome(L, initial_capital, strategy_type, option_chain) ==
    LET t == TradeTerms(strategy_type, option_chain)
    IN  IF ~option_chain.present THEN "no_chain"
        ELSE IF ~t.found THEN "no_leg"
        ELSE IF t.margin_required <= 0 \/ t.margin_required > L.cash
        THEN "no_cash"
        ELSE IF t.margin_required * 100 > initial_capital * CAPITAL_ALLOCATION_PERCENTAGE
        THEN "over_allocation"
        ELSE "executed"

\* self.cash -= margin_required
\* the margin not taken out of cash
CashAfterEntry_NoDebit(c, margin_required) == c

CashAfterEntry(c, margin_required) == c - margin_required

(***************************************************************************)
(* Backtester._execute_trade                                               *)
(***************************************************************************)
\* an entry that is not logged in the trade history
_execute_trade_NoHistory(L, initial_capital, strategy_type, option_chain) ==
    LET t == TradeTerms(strategy_type, option_chain)
        id == Len(L.heap) + 1
    IN  IF TradeOutcome(L, initial_capital, strategy_type, option_chain) # "executed"
        THEN L
        ELSE Ledger(CashAfterEntry(L.cash, t.margin_required),
                    Append(L.positions, id),
                    L.trades,
                    Append(L.heap, NewPosition(strategy_type, t.trade_legs,
                                               t.net_premium, t.margin_required)))

_execute_trade(L, initial_capital, strategy_type, option_chain) ==
    LET t == TradeTerms(strategy_type, option_chain)
        id == Len(L.heap) + 1
    IN  IF TradeOutcome(L, initial_capital, strategy_type, option_chain) # "executed"
        THEN L
        ELSE Ledger(CashAfterEntry(L.cash, t.margin_required),
                    Append(L.positions, id),
                    Append(L.trades, id),
                    Append(L.heap, NewPosition(strategy_type, t.trade_legs,
                                               t.net_premium, t.margin_required)))

(***************************************************************************)
(* Backtester._handle_eod_exits                                            *)
(*                                                                         *)
(* fetch[sym] is what get_historical_data returns for option sym on the    *)
(* settled day: the empty list, or the day's candle (its close).           *)
(***************************************************************************)
\* a loop over the legs that passes over a leg without data instead of
\* giving the position up for the day
RECURSIVE LegScan_SkipMissing(_, _, _, _)
LegScan_SkipMissing(legs, k, fetch, current_net_premium) ==
    IF k > Len(legs)
    THEN [all_legs_found |-> TRUE, current_net_premium |-> current_net_premium]
    ELSE LET leg == legs[k]
             option_data == fetch[leg.option.symbol]
         IN  IF Len(option_data) > 0
             THEN LET close_price == option_data[1]
                  IN  IF leg.action = "SELL"
                      THEN LegScan_SkipMissing(legs, k + 1, fetch,
                                               current_net_premium - close_price)
                      ELSE LegScan_SkipMissing(legs, k + 1, fetch,
                                               current_net_premium + close_price)
             ELSE LegScan_SkipMissing(legs, k + 1, fetch, current_net_premium)

\* the loop over position['legs']: the signed sum, or the break at the
\* first leg without data
RECURSIVE LegScan(_, _, _, _)
LegScan(legs, k, fetch, current_net_premium) ==
    IF k > Len(legs)
    THEN [all_legs_found |-> TRUE, current_net_premium |-> current_net_premium]
    ELSE LET leg == legs[k]
             option_data == fetch[leg.option.symbol]
         IN  IF Len(option_data) > 0
             THEN LET close_price == option_data[1]
                  IN  IF leg.action = "SELL"
                      THEN LegScan(legs, k + 1, fetch, current_net_premium - close_price)
                      ELSE LegScan(legs, k + 1, fetch, current_net_premium + close_price)
             ELSE [all_legs_found |-> FALSE, current_net_premium |-> current_net_premium]

\* pnl = position['entry_premium'] - current_net_premium
\* the mark added to the pnl stored by the settlement before
MarkPnl_Cumulative(position, current_net_premium) ==
    position.pnl + position.entry_premium - current_net_premium

MarkPnl(position, current_net_premium) ==
    position.entry_premium - current_net_premium

\* list.remove(x): drops the first element equal to x (dicts compare by value)
RECURSIVE RemoveScan(_, _, _, _)
RemoveScan(positions, heap, id, j) ==
    IF j > Len(positions) THEN positions
    ELSE IF positions[j] = id \/ heap[positions[j]] = heap[id]
         THEN SubSeq(positions, 1, j - 1) \o SubSeq(positions, j + 1, Len(positions))
         ELSE RemoveScan(positions, heap, id, j + 1)

\* the last element removed whatever the position
ListRemove_Pop(positions, heap, id) == SubSeq(positions, 1, Len(positions) - 1)

ListRemove(positions, heap, id) == RemoveScan(positions, heap, id, 1)

\* a close that credits the realized pnl but not the reserved margin
CashAfterClose_PnlOnly(c, position, pnl) == c + pnl

\* self.cash += position['margin_required'] + pnl
CashAfterClose(c, position, pnl) == c + position.margin_required + pnl

\* the close taken as also releasing the margin held by the position
MarkClosed_ReleaseMargin(position) ==
    [position EXCEPT !.status = "CLOSED", !.margin_required = 0]

\* position['status'] = 'CLOSED'
MarkClosed(position) == [position EXCEPT !.status = "CLOSED"]

\* the body of the loop for one position of the copy self.positions[:].
\* R.L is the ledger; R.evaluated lists the positions that passed the status
\* test, R.deferred those left at "continue", R.closed those closed
SettleOne(R, id, fetch) ==
    LET L == R.L
        position == L.heap[id]
        scan == LegScan(position.legs, 1, fetch, 0)
        pnl == MarkPnl(position, scan.current_net_premium)
        marked == [position EXCEPT !.pnl = pnl]
        closed == MarkClosed(marked)
        seen == [R EXCEPT !.evaluated = Append(R.evaluated, id)]
    IN  IF position.status # "OPEN" THEN R
        ELSE IF ~scan.all_legs_found
        THEN [seen EXCEPT !.deferred = R.deferred \cup {id}]
        ELSE IF check_exit_conditions(marked) = "None"
        THEN [seen EXCEPT !.L.heap[id] = marked]
        ELSE LET heap2 == [L.heap EXCEPT ![id] = closed]
             IN  [seen EXCEPT
                    !.L = Ledger(CashAfterClose(L.cash, position, pnl),
                                 ListRemove(L.positions, heap2, id),
                                 L.trades,
                                 heap2),
                    !.closed = R.closed \cup {id}]

\* for position in self.positions -- the list as the loop body changes it
IterationList_Live(snapshot, L) == L.positions

\* for position in self.positions[:] -- the list as it was before the loop
IterationList(snapshot, L) == snapshot

RECURSIVE SettleScan(_, _, _, _)
SettleScan(R, snapshot, k, fetch) ==
    IF k > Len(IterationList(snapshot, R.L)) THEN R
    ELSE SettleScan(SettleOne(R, IterationList(snapshot, R.L)[k], fetch),
                    snapshot, k + 1, fetch)

_handle_eod_exits(L, fetch) ==
    SettleScan([L |-> L, evaluated |-> << >>, deferred |-> {}, closed |-> {}],
               L.positions, 1, fetch)

(***************************************************************************)
(* indicators.calculate_sma / calculate_rsi and                            *)
(* DirectionalStrategy.check_entry_signal.                                 *)
(*                                                                         *)
(* A candle is [ts, close]: the loop and the indicators read no other      *)
(* field.  A rolling mean is kept as the sum of its window, and two means  *)
(* of different windows are compared by cross-multiplication.              *)
(***************************************************************************)
Candle(t, c) == [ts |-> t, close |-> c]

RECURSIVE CloseSum(_, _, _)
CloseSum(data, from, to) ==
    IF from > to THEN 0 ELSE data[to].close + CloseSum(data, from, to - 1)

\* rolling(window=period).mean() at position end is NaN before period values
calculate_sma_defined(data, period, end) == end >= period /\ end <= Len(data)
calculate_sma_sum(data, period, end) == CloseSum(data, end - period + 1, end)

\* delta = close.diff(); the first delta is NaN and counts as 0 on both sides
Delta(data, k) == IF k <= 1 THEN 0 ELSE data[k].close - data[k - 1].close

RECURSIVE GainSum(_, _, _)
GainSum(data, from, to) ==
    IF from > to THEN 0
    ELSE (IF Delta(data, to) > 0 THEN Delta(data, to) ELSE 0)
             + GainSum(data, from, to - 1)

RECURSIVE LossSum(_, _, _)
LossSum(data, from, to) ==
    IF from > to THEN 0
    ELSE (IF Delta(data, to) < 0 THEN -Delta(data, to) ELSE 0)
             + LossSum(data, from, to - 1)

\* rsi = 100 - 100 / (1 + gain / loss): NaN when gain = loss = 0, else
\* 100 * gain / (gain + loss); compared with the centerline without dividing
calculate_rsi_above(data, period) ==
    LET n == Len(data)
        gain == GainSum(data, n - period + 1, n)
        loss == LossSum(data, n - period + 1, n)
    IN  gain + loss > 0 /\ 100 * gain > RsiCenter * (gain + loss)

calculate_rsi_below(data, period) ==
    LET n == Len(data)
        gain == GainSum(data, n - period + 1, n)
        loss == LossSum(data, n - period + 1, n)
    IN  gain + loss > 0 /\ 100 * gain < RsiCenter * (gain + loss)

\* the crossover taken as strict on the previous candle
check_entry_signal_Strict(data) ==
    LET n == Len(data)
        last_short_ma == calculate_sma_sum(data, short_ma_period, n)
        last_long_ma == calculate_sma_sum(data, long_ma_period, n)
        prev_short_ma == calculate_sma_sum(data, short_ma_period, n - 1)
        prev_long_ma == calculate_sma_sum(data, long_ma_period, n - 1)
        defined == /\ calculate_sma_defined(data, short_ma_period, n - 1)
                   /\ calculate_sma_defined(data, long_ma_period, n - 1)
        is_bullish_momentum == calculate_rsi_above(data, rsi_period)
        is_bearish_momentum == calculate_rsi_below(data, rsi_period)
    IN  IF n < short_ma_period \/ n < long_ma_period \/ n < rsi_period
        THEN "None"
        ELSE IF /\ defined
                /\ prev_short_ma * long_ma_period < prev_long_ma * short_ma_period
                /\ last_short_ma * long_ma_period > last_long_ma * short_ma_period
                /\ is_bullish_momentum
        THEN "Bull Put Spread"
        ELSE IF /\ defined
                /\ prev_short_ma * long_ma_period > prev_long_ma * short_ma_period
                /\ last_short_ma * long_ma_period < last_long_ma * short_ma_period
                /\ is_bearish_momentum
        THEN "Bear Call Spread"
        ELSE "None"

check_entry_signal(data) ==
    LET n == Len(data)
        last_short_ma == calculate_sma_sum(data, short_ma_period, n)
        last_long_ma == calculate_sma_sum(data, long_ma_period, n)
        prev_short_ma == calculate_sma_sum(data, short_ma_period, n - 1)
        prev_long_ma == calculate_sma_sum(data, long_ma_period, n - 1)
        defined == /\ calculate_sma_defined(data, short_ma_period, n - 1)
                   /\ calculate_sma_defined(data, long_ma_period, n - 1)
        is_bullish_momentum == calculate_rsi_above(data, rsi_period)
        is_bearish_momentum == calculate_rsi_below(data, rsi_period)
    IN  IF n < short_ma_period \/ n < long_ma_period \/ n < rsi_period
        THEN "None"
        ELSE IF /\ defined
                /\ prev_short_ma * long_ma_period <= prev_long_ma * short_ma_period
                /\ last_short_ma * long_ma_period > last_long_ma * short_ma_period
                /\ is_bullish_momentum
        THEN "Bull Put Spread"
        ELSE IF /\ defined
                /\ prev_short_ma * long_ma_period >= prev_long_ma * short_ma_period
                /\ last_short_ma * long_ma_period < last_long_ma * short_ma_period
                /\ is_bearish_momentum
        THEN "Bear Call Spread"
        ELSE "None"

(***************************************************************************)
(* Input series the data provider may return.                              *)
(***************************************************************************)
\* closes of the candles after the lookback floor; the floor itself is flat
TailCloses == {90, 100, 105}
\* seconds from one candle to the next: the same day, or the next day
TailGaps == {300, 86400}

RECURSIVE Flat(_)
Flat(n) ==
    IF n = 0 THEN << >>
    ELSE Append(Flat(n - 1), Candle((n - 1) * 300, 100))

RECURSIVE Tails(_)
Tails(k) ==
    IF k = 0 THEN { Flat(long_ma_period) }
    ELSE { Append(d, Candle(d[Len(d)].ts + g, c)) :
               d \in Tails(k - 1), g \in TailGaps, c \in TailCloses }

\* lengths of the series that end at or before the lookback floor
ShortLengths == {0, 1, 2, long_ma_period}

UnderlyingSeries ==
    { Flat(n) : n \in ShortLengths } \cup UNION { Tails(k) : k \in 1..MaxTail }

\* volatility series: timestamps that can match the first candle past the floor
VixSeries ==
    { << >>,
      << Candle(16500, 19), Candle(16800, 19), Candle(102900, 19) >>,
      << Candle(16500, 17) >>,
      << Candle(102600, 19), Candle(102900, 18) >>,
      << Candle(7, 19) >> }

InitialCapitals == {30, 50}

\* datetime.datetime.fromtimestamp(ts).date()
DayOf(current_timestamp) == current_timestamp \div SecondsPerDay

\* vix_map = {candle[0]: candle[4] for candle in vix_data}; vix_map.get(ts):
\* the close of the last candle with that timestamp, or None as << >>
\* the lookup taken as the latest candle at or before the timestamp
RECURSIVE VixGet_AtOrBefore(_, _, _)
VixGet_AtOrBefore(vix, k, current_timestamp) ==
    IF k = 0 THEN << >>
    ELSE IF vix[k].ts <= current_timestamp THEN << vix[k].close >>
    ELSE VixGet_AtOrBefore(vix, k - 1, current_timestamp)

RECURSIVE VixGet(_, _, _)
VixGet(vix, k, current_timestamp) ==
    IF k = 0 THEN << >>
    ELSE IF vix[k].ts = current_timestamp THEN << vix[k].close >>
    ELSE VixGet(vix, k - 1, current_timestamp)

(***************************************************************************)
(* State.                                                                  *)
(***************************************************************************)
VARIABLES
    underlying_data,   \* get_historical_data(underlying_symbol, ...)
    vix_data,          \* get_historical_data(vix_symbol, ...)
    initial_capital,   \* self.initial_capital
    cash,              \* self.cash
    positions,         \* self.positions: ids of the dicts, in list order
    trades,            \* self.trades: ids of the dicts, in list order
    heap,              \* the position dicts, by id
    pc,                \* where run_backtest stands
    i,                 \* loop index of run_backtest, from 1
    prev_day,          \* prev_day: << >> is None, << d >> a date
    settle_log,        \* the arguments of the calls of _handle_eod_exits
    attempts,          \* the calls of _execute_trade so far
    last,              \* what the last ledger operation did
    probe              \* a function applied on its own: its inputs and result

vars == << underlying_data, vix_data, initial_capital, cash, positions, trades,
           heap, pc, i, prev_day, settle_log, attempts, last, probe >>

\* what no step of run_backtest changes
inputs == << underlying_data, vix_data, initial_capital, probe >>
ledger == << cash, positions, trades, heap >>

L0 == Ledger(cash, positions, trades, heap)

SetLedger(L) ==
    /\ cash' = L.cash
    /\ positions' = L.positions
    /\ trades' = L.trades
    /\ heap' = L.heap

OpenIds(L) == { id \in 1..Len(L.heap) : L.heap[id].status = "OPEN" }

\* what the last call of a ledger operation was given and what it did
NoOp ==
    [op |-> "none", result |-> "none", strategy |-> "None",
     option_chain |-> NoneChain, fetch |-> [sym \in Symbols |-> << >>],
     evaluated |-> << >>, deferred |-> {}, closed |-> {}]

EntryOp(L, strategy_type, option_chain) ==
    [NoOp EXCEPT
        !.op = "entry",
        !.result = TradeOutcome(L, initial_capital, strategy_type, option_chain),
        !.strategy = strategy_type,
        !.option_chain = option_chain]

SettleOp(fetch, R) ==
    [NoOp EXCEPT
        !.op = "settle",
        !.result = "done",
        !.fetch = fetch,
        !.evaluated = R.evaluated,
        !.deferred = R.deferred,
        !.closed = R.closed]

\* no function is applied on its own during a run
NoProbe == [fn |-> "none", calls |-> 0]

(***************************************************************************)
(* Backtester.__init__ and the series the provider will return.            *)
(***************************************************************************)
Init ==
    /\ underlying_data \in UnderlyingSeries
    /\ vix_data \in VixSeries
    /\ initial_capital \in InitialCapitals
    /\ cash = initial_capital
    /\ positions = << >>
    /\ trades = << >>
    /\ heap = << >>
    /\ pc = "start"
    /\ i = 1
    /\ prev_day = << >>
    /\ settle_log = << >>
    /\ attempts = 0
    /\ last = NoOp
    /\ probe = NoProbe

(***************************************************************************)
(* Backtester.run_backtest                                                 *)
(***************************************************************************)
\* an abort only when both series are empty
DataMissing_Both(u, v) == u = << >> /\ v = << >>

\* if not underlying_data or not vix_data
DataMissing(u, v) == u = << >> \/ v = << >>

\* lines 28-42: the two fetches and the empty-series abort
Fetch ==
    /\ pc = "start"
    /\ pc' = IF DataMissing(underlying_data, vix_data) THEN "aborted" ELSE "loop"
    /\ UNCHANGED << inputs, ledger, i, prev_day, settle_log, attempts, last >>

\* the floor taken from the short moving average
BelowFloor_Short(index) == index < short_ma_period

\* if i < self.dir_strategy.long_ma_period: continue
BelowFloor(index) == index < long_ma_period

\* lines 43-45: an index before the lookback floor (i - 1 is Python's index)
Skip ==
    /\ pc = "loop"
    /\ i <= Len(underlying_data)
    /\ BelowFloor(i - 1)
    /\ i' = i + 1
    /\ UNCHANGED << inputs, ledger, pc, prev_day, settle_log, attempts, last >>

current_day == DayOf(underlying_data[i].ts)

\* a settlement only while the day stays the same
SettleDue_SameDay(pd, cd) == pd # << >> /\ << cd >> = pd

\* if prev_day and current_day != prev_day
SettleDue(pd, cd) == pd # << >> /\ << cd >> # pd

\* lines 47-54 when the day has changed: settle the previous day
DayTransition ==
    /\ pc = "loop"
    /\ i <= Len(underlying_data)
    /\ ~BelowFloor(i - 1)
    /\ SettleDue(prev_day, current_day)
    /\ \E fetch \in Fetches :
          LET R == _handle_eod_exits(L0, fetch)
          IN  /\ SetLedger(R.L)
              /\ last' = SettleOp(fetch, R)
    /\ settle_log' = Append(settle_log, prev_day)
    /\ pc' = "dir"
    /\ UNCHANGED << inputs, i, prev_day, attempts >>

\* lines 47-54 on the first retained candle or within a day
SameDay ==
    /\ pc = "loop"
    /\ i <= Len(underlying_data)
    /\ ~BelowFloor(i - 1)
    /\ ~SettleDue(prev_day, current_day)
    /\ pc' = "dir"
    /\ UNCHANGED << inputs, ledger, i, prev_day, settle_log, attempts, last >>

\* a call of _execute_trade with the chain the provider returns
Execute(strategy_type) ==
    \E option_chain \in Chains :
        /\ SetLedger(_execute_trade(L0, initial_capital, strategy_type, option_chain))
        /\ last' = EntryOp(L0, strategy_type, option_chain)
        /\ attempts' = attempts + 1

\* lines 57-61
Directional ==
    /\ pc = "dir"
    /\ LET dir_signal == check_entry_signal(SubSeq(underlying_data, 1, i))
       IN  IF dir_signal # "None"
           THEN Execute(dir_signal)
           ELSE UNCHANGED << ledger, attempts, last >>
    /\ pc' = "nondir"
    /\ UNCHANGED << inputs, i, prev_day, settle_log >>

\* lines 63-70
NonDirectional ==
    /\ pc = "nondir"
    /\ LET current_vix == VixGet(vix_data, Len(vix_data), underlying_data[i].ts)
       IN  IF current_vix # << >> /\ current_vix[1] # 0
              /\ NonDirSignal(current_vix[1]) # "None"
           THEN Execute(NonDirSignal(current_vix[1]))
           ELSE UNCHANGED << ledger, attempts, last >>
    /\ prev_day' = << current_day >>
    /\ i' = i + 1
    /\ pc' = "loop"
    /\ UNCHANGED << inputs, settle_log >>

\* lines 72-73 and 82-83: the settlement after the loop; None has no strftime
FinalEod ==
    /\ pc = "loop"
    /\ i > Len(underlying_data)
    /\ settle_log' = Append(settle_log, prev_day)
    /\ IF prev_day = << >>
       THEN /\ pc' = "crashed"
            /\ UNCHANGED << ledger, last >>
       ELSE /\ \E fetch \in Fetches :
                  LET R == _handle_eod_exits(L0, fetch)
                  IN  /\ SetLedger(R.L)
                      /\ last' = SettleOp(fetch, R)
            /\ pc' = "report"
    /\ UNCHANGED << inputs, i, prev_day, attempts >>

\* lines 75-76: generate_report
Report ==
    /\ pc = "report"
    /\ pc' = "reported"
    /\ UNCHANGED << inputs, ledger, i, prev_day, settle_log, attempts, last >>

Next ==
    \/ Fetch
    \/ Skip
    \/ DayTransition
    \/ SameDay
    \/ Directional
    \/ NonDirectional
    \/ FinalEod
    \/ Report

Spec == Init /\ [][Next]_vars

(***************************************************************************)
(* Properties.                                                             *)
(***************************************************************************)
RECURSIVE ClosedPnl(_)
ClosedPnl(k) ==
    IF k = 0 THEN 0
    ELSE (IF heap[trades[k]].status = "CLOSED" THEN heap[trades[k]].pnl ELSE 0)
             + ClosedPnl(k - 1)

RECURSIVE OpenMargin(_)
OpenMargin(k) ==
    IF k = 0 THEN 0
    ELSE heap[positions[k]].margin_required + OpenMargin(k - 1)

\* C1: in every state, cash equals the initial capital plus the pnl of all
\* CLOSED positions of the trade history minus the margin of all positions
\* of the open set.
C1_CashIdentity ==
    cash = initial_capital + ClosedPnl(Len(trades)) - OpenMargin(Len(positions))

\* a run has ended with a closed and a still open position
C1_Witness ==
    /\ pc = "reported"
    /\ Len(positions) > 0
    /\ \E k \in 1..Len(trades) : heap[trades[k]].status = "CLOSED"

\* the legs' prices under the day's data, sold minus bought: what it costs to
\* buy the sold legs back and sell the bought legs
RECURSIVE UnwindCost(_, _, _)
UnwindCost(legs, k, fetch) ==
    IF k = 0 THEN 0
    ELSE (IF legs[k].action = "SELL" THEN fetch[legs[k].option.symbol][1]
          ELSE -fetch[legs[k].option.symbol][1])
             + UnwindCost(legs, k - 1, fetch)

\* the credit received at entry: sold minus bought last-traded prices
RECURSIVE EntryCredit(_, _)
EntryCredit(legs, k) ==
    IF k = 0 THEN 0
    ELSE (IF legs[k].action = "SELL" THEN legs[k].option.ltp
          ELSE -legs[k].option.ltp)
             + EntryCredit(legs, k - 1)

Range(seq) == { seq[k] : k \in 1..Len(seq) }

\* the positions the last settlement priced
Marked == Range(last.evaluated) \ last.deferred

\* every leg of position id closed at the price it had at entry
SamePrice(id) ==
    \A k \in 1..Len(heap[id].legs) :
        last.fetch[heap[id].legs[k].option.symbol]
            = << heap[id].legs[k].option.ltp >>

\* C2: after a settlement, a position it priced has a positive pnl when the
\* cost to unwind at the closing prices is below the credit received at entry
\* and a negative pnl when the cost is above the credit.
C2_SignConvention ==
    last.op = "settle" =>
        \A id \in Marked :
            LET cost == UnwindCost(heap[id].legs, Len(heap[id].legs), last.fetch)
                credit == EntryCredit(heap[id].legs, Len(heap[id].legs))
            IN  /\ cost < credit => heap[id].pnl > 0
                /\ cost > credit => heap[id].pnl < 0

\* C3: after a settlement, a position whose legs all closed at their entry
\* prices has pnl 0 and, if its entry premium is positive, was not closed.
C3_SamePriceZeroPnl ==
    last.op = "settle" =>
        \A id \in Marked :
            SamePrice(id) =>
                /\ heap[id].pnl = 0
                /\ heap[id].entry_premium > 0 => id \notin last.closed

\* the conditions under which an entry is to be aborted, from its inputs
MustAbort(L, strategy_type, option_chain) ==
    LET t == TradeTerms(strategy_type, option_chain)
    IN  \/ ~option_chain.present
        \/ ~t.found
        \/ t.margin_required <= 0
        \/ t.margin_required > L.cash
        \/ t.margin_required * 100 > initial_capital * CAPITAL_ALLOCATION_PERCENTAGE

\* C4: a step that is an entry attempt meeting an abort condition leaves
\* cash, the open set, the trade history and every position as they were.
C4_AbortChangesNothing ==
    [][ (attempts' # attempts /\ MustAbort(L0, last'.strategy, last'.option_chain))
            => UNCHANGED ledger ]_vars

\* an entry was rejected for lack of cash while a position is open
C4_Witness ==
    /\ last.op = "entry"
    /\ last.result = "no_cash"
    /\ Len(positions) > 0
    /\ TradeTerms(last.strategy, last.option_chain).margin_required > cash

\* C5: a step that creates a position creates it with a margin that is
\* positive, at most the cash held before the step and at most the allocation
\* cap; and every position of the open set has a positive margin.
C5_RiskGate ==
    /\ [](\A k \in 1..Len(positions) : heap[positions[k]].margin_required > 0)
    /\ [][ Len(heap') > Len(heap) =>
             LET m == heap'[Len(heap')].margin_required
             IN  /\ Len(heap') = Len(heap) + 1
                 /\ m > 0
                 /\ m <= cash
                 /\ m * 100 <= initial_capital * CAPITAL_ALLOCATION_PERCENTAGE ]_vars

\* a position has been opened and is in the open set
C5_Witness ==
    /\ last.op = "entry"
    /\ last.result = "executed"
    /\ Len(positions) > 0
    /\ heap[positions[Len(positions)]].margin_required > 0

\* a step that is a call of _handle_eod_exits on a date
SettleStep == settle_log' # settle_log /\ pc' # "crashed"

MissingLeg(id, fetch) ==
    \E k \in 1..Len(heap[id].legs) : fetch[heap[id].legs[k].option.symbol] = << >>

RECURSIVE CloseCredit(_, _)
CloseCredit(ids, h) ==
    IF ids = {} THEN 0
    ELSE LET id == CHOOSE x \in ids : TRUE
         IN  h[id].margin_required + h[id].pnl + CloseCredit(ids \ {id}, h)

\* C6: in a settlement, an OPEN position with a leg whose closing price is
\* unobtainable keeps its pnl and status and stays in the open set; cash
\* moves only by the credits of the positions closed; and every position of
\* the open set, one deferred earlier included, is evaluated.
C6_MissingLegDefers ==
    [][ SettleStep =>
          /\ \A id \in 1..Len(heap) :
                (heap[id].status = "OPEN" /\ MissingLeg(id, last'.fetch)) =>
                    /\ heap'[id] = heap[id]
                    /\ id \in Range(positions')
                    /\ id \in last'.deferred
          /\ cash' = cash + CloseCredit(last'.closed, heap')
          /\ last'.closed \cap last'.deferred = {}
          /\ Range(positions) \subseteq Range(last'.evaluated) ]_vars

\* a settlement has deferred a position whose first leg was priced and whose
\* second leg was not
C6_Witness ==
    /\ last.op = "settle"
    /\ \E id \in last.deferred :
          /\ last.fetch[heap[id].legs[1].option.symbol] # << >>
          /\ last.fetch[heap[id].legs[2].option.symbol] = << >>
          /\ heap[id].status = "OPEN"
          /\ id \in Range(positions)

NoDuplicates(seq) ==
    \A a, b \in 1..Len(seq) : seq[a] = seq[b] => a = b

\* C7: a settlement evaluates every position that was OPEN at its start
\* exactly once and leaves it OPEN in the open set or CLOSED outside it; and a
\* CLOSED position never changes again and never is in the open set.
C7_OneWayLifecycle ==
    /\ [][ SettleStep =>
             /\ NoDuplicates(last'.evaluated)
             /\ Range(last'.evaluated) = OpenIds(L0)
             /\ \A id \in OpenIds(L0) :
                   \/ heap'[id].status = "OPEN" /\ id \in Range(positions')
                   \/ heap'[id].status = "CLOSED" /\ id \notin Range(positions') ]_vars
    /\ [][ \A id \in 1..Len(heap) :
             heap[id].status = "CLOSED" =>
                 /\ heap'[id] = heap[id]
                 /\ id \notin Range(positions') ]_vars
    /\ [](\A id \in 1..Len(heap) :
             heap[id].status = "CLOSED" => id \notin Range(positions))

\* a settlement has closed one position and left a later one of the same pass
\* open
C7_Witness ==
    /\ last.op = "settle"
    /\ \E c \in last.closed, o \in Range(last.evaluated) :
          /\ c < o
          /\ heap[c].status = "CLOSED"
          /\ heap[o].status = "OPEN"
          /\ o \in Range(positions)

\* the run has ended: no step of run_backtest is left
RunEnded == pc \in {"aborted", "crashed", "reported"}

\* C8: a run on two non-empty series ends with the report emitted.
C8_ReachesReport ==
    (underlying_data # << >> /\ vix_data # << >> /\ RunEnded) => pc = "reported"

\* C9: with an empty underlying or volatility series the run never leaves the
\* abort: no entry attempt, no settlement, no report, and cash, open set and
\* trade history as constructed.
C9_EmptyInputAborts ==
    (underlying_data = << >> \/ vix_data = << >>) =>
        /\ pc \in {"start", "aborted"}
        /\ attempts = 0
        /\ settle_log = << >>
        /\ cash = initial_capital
        /\ positions = << >>
        /\ trades = << >>

\* the run has aborted on an empty volatility series
C9_Witness ==
    /\ pc = "aborted"
    /\ underlying_data # << >>
    /\ vix_data = << >>

\* the days of the candles the loop retains, each once, in series order
RECURSIVE RetainedDays(_)
RetainedDays(k) ==
    IF k <= long_ma_period THEN << >>
    ELSE LET before == RetainedDays(k - 1)
             d == << DayOf(underlying_data[k].ts) >>
         IN  IF before # << >> /\ before[Len(before)] = d THEN before
             ELSE Append(before, d)

\* C10: once the loop of a run on non-empty series has ended, the calls of
\* settlement are one per day of the loop, in day order, and the last of them
\* is for the day of the last candle.
C10_SettlesEveryDayOnce ==
    (underlying_data # << >> /\ vix_data # << >>
        /\ pc \in {"crashed", "report", "reported"}) =>
        /\ settle_log = RetainedDays(Len(underlying_data))
        /\ settle_log # << >>
        /\ settle_log[Len(settle_log)]
               = << DayOf(underlying_data[Len(underlying_data)].ts) >>

\* the candle of the current step opens a new calendar day
NewDay == prev_day # << >> /\ prev_day # << DayOf(underlying_data[i].ts) >>

\* a step that is a call of _execute_trade
EntryStep == attempts' # attempts

RECURSIVE MarginBefore(_)
MarginBefore(id) ==
    IF id = 0 THEN 0 ELSE heap[id].margin_required + MarginBefore(id - 1)

\* C11: while the loop stands at the signal evaluation of a candle that opens
\* a new day, the last settlement is the one of the previous day; an entry
\* attempt is made only there, is gated on the cash of that moment and calls
\* no settlement; and a settlement creates no position and evaluates none
\* that is created after it.
C11_SettleBeforeEnter ==
    /\ []((pc \in {"dir", "nondir"} /\ NewDay) =>
             /\ settle_log # << >>
             /\ settle_log[Len(settle_log)] = prev_day)
    /\ [][ EntryStep =>
             /\ pc \in {"dir", "nondir"}
             /\ settle_log' = settle_log
             /\ (Len(heap') > Len(heap)) =
                    ~MustAbort(L0, last'.strategy, last'.option_chain) ]_vars
    /\ [][ SettleStep =>
             /\ pc = "loop"
             /\ attempts' = attempts
             /\ Len(heap') = Len(heap)
             /\ Range(last'.evaluated) \subseteq 1..Len(heap) ]_vars

\* at a candle that opens a new day a position has been opened whose margin
\* exceeds what the cash would be without the credits of the day's settlement
C11_Witness ==
    /\ pc \in {"nondir", "loop"}
    /\ last.op = "entry"
    /\ last.result = "executed"
    /\ Len(settle_log) = 1
    /\ \E id \in 1..Len(heap) : heap[id].status = "CLOSED"
    /\ heap[Len(heap)].margin_required
           > initial_capital - MarginBefore(Len(heap) - 1)

(***************************************************************************)
(* A function applied on its own.  The run is not started: its variables   *)
(* stay as constructed, and probe holds the inputs, then the result.       *)
(***************************************************************************)
NotStarted ==
    /\ underlying_data = << >>
    /\ vix_data = << >>
    /\ initial_capital = 0
    /\ cash = 0
    /\ positions = << >>
    /\ trades = << >>
    /\ heap = << >>
    /\ pc = "start"
    /\ i = 1
    /\ prev_day = << >>
    /\ settle_log = << >>
    /\ attempts = 0
    /\ last = NoOp

run == << underlying_data, vix_data, initial_capital, cash, positions, trades,
          heap, pc, i, prev_day, settle_log, attempts, last >>

SeqsUpTo(S, n) == UNION { [1..k -> S] : k \in 0..n }

(***************************************************************************)
(* _find_option applied to every snapshot of up to MaxChain contracts.     *)
(***************************************************************************)
MaxChain == 3

SelectOptions == {PA, PB, CA, CB, PH, CH}
SelectTargets == {3, 4, 5, 6}
OptionTypes == {"CE", "PE"}

InitSelect ==
    /\ NotStarted
    /\ \E opts \in SeqsUpTo(SelectOptions, MaxChain),
          target_delta \in SelectTargets, option_type \in OptionTypes :
           probe = [fn |-> "_find_option", calls |-> 0,
                    option_chain |-> Chain(opts), target_delta |-> target_delta,
                    option_type |-> option_type,
                    first |-> NoneOpt, result |-> NoneOpt]

FindOptionCall ==
    /\ probe.calls = 0
    /\ LET found == _find_option(probe.option_chain, probe.target_delta,
                                 probe.option_type)
       IN  probe' = [probe EXCEPT !.calls = 1, !.first = found, !.result = found]
    /\ UNCHANGED run

FindOptionAgain ==
    /\ probe.calls = 1
    /\ probe' = [probe EXCEPT !.calls = 2,
                   !.result = _find_option(probe.option_chain,
                                           probe.target_delta, probe.option_type)]
    /\ UNCHANGED run

NextSelect == FindOptionCall \/ FindOptionAgain

SpecSelect == InitSelect /\ [][NextSelect]_vars

\* the places of the snapshot that hold a contract of the requested type
Candidates(opts, option_type) ==
    { k \in 1..Len(opts) : opts[k].option_type = option_type }

Distance(option, target_delta) == Abs(Abs(option.delta) - target_delta)

\* C12: the selector returns not-found exactly when the snapshot has no
\* contract of the requested type; otherwise the contract of that type whose
\* distance between abs(delta) and the target is least, the earliest in
\* snapshot order among equally close ones; and a second call with the same
\* inputs returns the same contract.
C12_SelectsClosestDelta ==
    (probe.fn = "_find_option" /\ probe.calls >= 1) =>
        LET opts == probe.option_chain.options_chain
            c == Candidates(opts, probe.option_type)
        IN  /\ (probe.result = NoneOpt) = (c = {})
            /\ c # {} =>
                 \E k \in c :
                    /\ probe.result = opts[k]
                    /\ \A j \in c :
                         /\ Distance(opts[k], probe.target_delta)
                               <= Distance(opts[j], probe.target_delta)
                         /\ Distance(opts[j], probe.target_delta)
                               = Distance(opts[k], probe.target_delta)
                            => k <= j
            /\ probe.calls = 2 => probe.result = probe.first

\* two different contracts of the requested type are equally close and closest,
\* and the earlier one was returned, twice
C12_Witness ==
    /\ probe.fn = "_find_option"
    /\ probe.calls = 2
    /\ LET opts == probe.option_chain.options_chain
           c == Candidates(opts, probe.option_type)
       IN  \E k \in c, j \in c :
              /\ k < j
              /\ opts[k] # opts[j]
              /\ probe.result = opts[k]
              /\ Distance(opts[j], probe.target_delta)
                    = Distance(opts[k], probe.target_delta)
              /\ \A n \in c : Distance(opts[k], probe.target_delta)
                                 <= Distance(opts[n], probe.target_delta)

(***************************************************************************)
(* check_exit_conditions applied to every pnl and entry premium of a       *)
(* bounded set.                                                            *)
(***************************************************************************)
MaxPnl == 30

ExitPnls == (-MaxPnl..MaxPnl) \cup {79, 80, 81}
ExitPremiums == {-4, 0, 4, 12, 100}

InitExit ==
    /\ NotStarted
    /\ \E pnl \in ExitPnls, entry_premium \in ExitPremiums :
           probe = [fn |-> "check_exit_conditions", calls |-> 0,
                    position |-> [NewPosition("Short Straddle", << >>,
                                              entry_premium, 0)
                                     EXCEPT !.pnl = pnl],
                    result |-> "None"]

ExitCall ==
    /\ probe.calls = 0
    /\ probe' = [probe EXCEPT !.calls = 1,
                              !.result = check_exit_conditions(probe.position)]
    /\ UNCHANGED run

NextExit == ExitCall

SpecExit == InitExit /\ [][NextExit]_vars

OldCandleCloses == {60, 100, 140}
SignalLengths == {rsi_period, short_ma_period, long_ma_period - 1, long_ma_period}

SignalData ==
    { [Flat(n) EXCEPT ![n].close = c] : n \in SignalLengths, c \in TailCloses }
    \cup { [d EXCEPT ![2].close = c] :
               d \in UNION { Tails(k) : k \in 1..MaxTail }, c \in OldCandleCloses }

InitSignal ==
    /\ NotStarted
    /\ \E data \in SignalData :
           probe = [fn |-> "check_entry_signal", calls |-> 0,
                    data |-> data, result |-> "None"]

SignalCall ==
    /\ probe.calls = 0
    /\ probe' = [probe EXCEPT !.calls = 1,
                              !.result = check_entry_signal(probe.data)]
    /\ UNCHANGED run

NextSignal == SignalCall

SpecSignal == InitSignal /\ [][NextSignal]_vars

\* the mean of the last `period` closes up to `end`, times both periods
ScaledAverage(data, period, end) ==
    CloseSum(data, end - period + 1, end)
        * ((short_ma_period * long_ma_period) \div period)

\* C14: the directional rule answers "Bull Put Spread" exactly when the
\* previous short average is <= the previous long average, the current short
\* average is > the current long average and the oscillator is > 50 (average
\* gain above average loss); "Bear Call Spread" exactly when >=, < and
\* oscillator < 50; never both, and nothing otherwise: when the oscillator is
\* exactly 50 and when the history is too short for an indicator.
C14_DirectionalRule ==
    (probe.fn = "check_entry_signal" /\ probe.calls >= 1) =>
        LET data == probe.data
            n == Len(data)
            enough == n - 1 >= long_ma_period
            prev_short == ScaledAverage(data, short_ma_period, n - 1)
            prev_long == ScaledAverage(data, long_ma_period, n - 1)
            cur_short == ScaledAverage(data, short_ma_period, n)
            cur_long == ScaledAverage(data, long_ma_period, n)
            gain == GainSum(data, n - rsi_period + 1, n)
            loss == LossSum(data, n - rsi_period + 1, n)
            bull == /\ enough
                    /\ prev_short <= prev_long /\ cur_short > cur_long
                    /\ gain > loss
            bear == /\ enough
                    /\ prev_short >= prev_long /\ cur_short < cur_long
                    /\ gain < loss
        IN  /\ (probe.result = "Bull Put Spread") = bull
            /\ (probe.result = "Bear Call Spread") = bear
            /\ (probe.result = "None") = (~bull /\ ~bear)
            /\ ~(bull /\ bear)
            /\ gain = loss => probe.result = "None"
            /\ n < long_ma_period => probe.result = "None"

\* the short average has crossed above the long one while the oscillator is
\* exactly 50, and the rule has answered nothing
C14_Witness ==
    /\ probe.fn = "check_entry_signal"
    /\ probe.calls = 1
    /\ probe.result = "None"
    /\ LET data == probe.data
           n == Len(data)
           gain == GainSum(data, n - rsi_period + 1, n)
       IN  /\ n - 1 >= long_ma_period
           /\ ScaledAverage(data, short_ma_period, n - 1)
                 <= ScaledAverage(data, long_ma_period, n - 1)
           /\ ScaledAverage(data, short_ma_period, n)
                 > ScaledAverage(data, long_ma_period, n)
           /\ gain > 0
           /\ gain = LossSum(data, n - rsi_period + 1, n)

\* the volatility series has a candle with the timestamp of the current
\* underlying candle and a close above the threshold
VixAbove ==
    \E k \in 1..Len(vix_data) :
        /\ vix_data[k].ts = underlying_data[i].ts
        /\ vix_data[k].close > INDIA_VIX_THRESHOLD

C16_NetCredit ==
    \A id \in 1..Len(heap) :
        /\ heap[id].entry_premium > 0
        /\ -(SL_PERCENTAGE * heap[id].entry_premium) < 0
        /\ TP_PERCENTAGE * heap[id].entry_premium > 0

\* C17: no step changes the entry premium, the margin, the strategy label or
\* the legs of a position that exists: they keep the values of its creation
\* through every settlement and through its close.
C17_EntryTermsImmutable ==
    [][ \A id \in 1..Len(heap) :
          /\ heap'[id].entry_premium = heap[id].entry_premium
          /\ heap'[id].margin_required = heap[id].margin_required
          /\ heap'[id].strategy = heap[id].strategy
          /\ heap'[id].legs = heap[id].legs ]_vars

\* a spread opened at the first retained candle has passed the settlement of
\* its day and was closed by the final one, with the terms of its entry
C17_Witness ==
    /\ last.op = "settle"
    /\ Len(settle_log) = 2
    /\ 1 \in last.closed
    /\ underlying_data[long_ma_period + 1].close > underlying_data[1].close
    /\ heap[1].strategy = "Bull Put Spread"
    /\ heap[1].status = "CLOSED"
    /\ heap[1].margin_required > 0
    /\ heap[1].entry_premium = EntryCredit(heap[1].legs, Len(heap[1].legs))

\* C18: right after a settlement, a second settlement at the same closing
\* prices changes nothing: every position it left open keeps its pnl and
\* status, cash and the open set stay as they are; and the pnl stored for a
\* priced position is a function of its entry premium and of these closing
\* prices alone.
C18_MarkingIsLastWrite ==
    last.op = "settle" =>
        /\ _handle_eod_exits(L0, last.fetch).L = L0
        /\ _handle_eod_exits(L0, last.fetch).closed = {}
        /\ \A id \in Marked :
              heap[id].pnl =
                  heap[id].entry_premium
                      + UnwindCost(heap[id].legs, Len(heap[id].legs), last.fetch)

\* a spread opened at the first retained candle has been marked by two
\* settlements, is still open and carries a pnl other than 0
C18_Witness ==
    /\ last.op = "settle"
    /\ Len(settle_log) = 2
    /\ underlying_data[long_ma_period + 1].close > underlying_data[1].close
    /\ 1 \in Marked
    /\ heap[1].strategy = "Bull Put Spread"
    /\ 1 \in Range(positions)
    /\ heap[1].status = "OPEN"
    /\ heap[1].pnl # 0

\* C19: an entry attempt that meets no abort condition takes exactly the
\* margin out of cash, creates exactly one position, OPEN with pnl 0, puts it
\* at the end of the open set and at the end of the trade history, and leaves
\* every earlier position and history entry as it was; and no step ever
\* shortens or rewrites the trade history.
C19_EntryEffect ==
    /\ [][ (EntryStep /\ ~MustAbort(L0, last'.strategy, last'.option_chain)) =>
             LET t == TradeTerms(last'.strategy, last'.option_chain)
                 id == Len(heap) + 1
             IN  /\ cash' = cash - t.margin_required
                 /\ Len(heap') = id
                 /\ heap'[id].status = "OPEN"
                 /\ heap'[id].pnl = 0
                 /\ heap'[id].margin_required = t.margin_required
                 /\ heap'[id].strategy = last'.strategy
                 /\ positions' = Append(positions, id)
                 /\ trades' = Append(trades, id)
                 /\ \A k \in 1..Len(heap) : heap'[k] = heap[k] ]_vars
    /\ [][ /\ Len(trades') >= Len(trades)
           /\ SubSeq(trades', 1, Len(trades)) = trades ]_vars

\* an entry has just been executed while the history already held a closed
\* position and the open set an open one
C19_Witness ==
    /\ last.op = "entry"
    /\ last.result = "executed"
    /\ Len(trades) >= 3
    /\ trades[Len(trades)] = Len(heap)
    /\ positions[Len(positions)] = Len(heap)
    /\ heap[Len(heap)].status = "OPEN"
    /\ \E c \in Range(trades) : heap[c].status = "CLOSED"
    /\ \E o \in Range(positions) : o # Len(heap)

\* the list without the members of ids, in the same order
RECURSIVE Without(_, _)
Without(seq, ids) ==
    IF seq = << >> THEN << >>
    ELSE IF seq[1] \in ids THEN Without(Tail(seq), ids)
    ELSE << seq[1] >> \o Without(Tail(seq), ids)

\* positions a and b have the same strategy, legs, entry premium and margin
SameTerms(a, b) ==
    /\ heap[a].strategy = heap[b].strategy
    /\ heap[a].legs = heap[b].legs
    /\ heap[a].entry_premium = heap[b].entry_premium
    /\ heap[a].margin_required = heap[b].margin_required

\* C20: a settlement closes exactly the priced open positions on which the
\* exit rule fires: each becomes CLOSED, cash rises by its margin plus its
\* pnl, exactly these positions leave the open set while every other one stays
\* in its place and stays OPEN, and the trade history is the same list.
C20_CloseEffect ==
    [][ SettleStep =>
          /\ cash' = cash + CloseCredit(last'.closed, heap')
          /\ \A id \in last'.closed :
                /\ heap[id].status = "OPEN"
                /\ heap'[id].status = "CLOSED"
                /\ heap'[id].margin_required = heap[id].margin_required
                /\ check_exit_conditions(heap'[id]) # "None"
          /\ \A id \in OpenIds(L0) \ last'.closed :
                /\ heap'[id].status = "OPEN"
                /\ id \notin last'.deferred
                      => check_exit_conditions(heap'[id]) = "None"
          /\ positions' = Without(positions, last'.closed)
          /\ trades' = trades ]_vars

\* a settlement has closed a position that had a twin of identical terms in
\* the open set and has left another position open
C20_Witness ==
    /\ last.op = "settle"
    /\ \E c \in last.closed, t \in Range(last.evaluated) :
          /\ c # t
          /\ SameTerms(c, t)
    /\ \E o \in Range(last.evaluated) : o \in Range(positions)

\* the signal the directional rule gives on a history, stated on the averages
\* and on the sign of gain - loss over the oscillator window
RuleSignal(data) ==
    LET n == Len(data)
        enough == n - 1 >= long_ma_period
        prev_short == ScaledAverage(data, short_ma_period, n - 1)
        prev_long == ScaledAverage(data, long_ma_period, n - 1)
        cur_short == ScaledAverage(data, short_ma_period, n)
        cur_long == ScaledAverage(data, long_ma_period, n)
        gain == GainSum(data, n - rsi_period + 1, n)
        loss == LossSum(data, n - rsi_period + 1, n)
    IN  IF enough /\ prev_short <= prev_long /\ cur_short > cur_long /\ gain > loss
        THEN "Bull Put Spread"
        ELSE IF enough /\ prev_short >= prev_long /\ cur_short < cur_long
                /\ gain < loss
        THEN "Bear Call Spread"
        ELSE "None"

\* C21: at a retained candle the directional evaluation comes first and makes
\* one entry attempt, with the label of the signal, exactly when the
\* directional rule signals; the non-directional evaluation follows and makes
\* one "Short Straddle" attempt exactly when the volatility close at the
\* candle's timestamp is above the threshold, whatever the directional attempt
\* did; no other step attempts an entry, and an attempt creates at most one
\* position.
C21_SignalsToAttempts ==
    /\ [][ pc = "dir" =>
             LET dir_signal == RuleSignal(SubSeq(underlying_data, 1, i))
             IN  /\ pc' = "nondir"
                 /\ i' = i
                 /\ attempts' = attempts + (IF dir_signal # "None" THEN 1 ELSE 0)
                 /\ dir_signal # "None" =>
                       /\ last'.op = "entry"
                       /\ last'.strategy = dir_signal ]_vars
    /\ [][ pc = "nondir" =>
             /\ pc' = "loop"
             /\ attempts' = attempts + (IF VixAbove THEN 1 ELSE 0)
             /\ VixAbove =>
                   /\ last'.op = "entry"
                   /\ last'.strategy = "Short Straddle" ]_vars
    /\ [][ pc \notin {"dir", "nondir"} => attempts' = attempts ]_vars
    /\ [][ /\ Len(heap') <= Len(heap) + 1
           /\ Len(heap') - Len(heap) <= attempts' - attempts ]_vars

\* the first retained candle gave two signals: the directional attempt was
\* rejected and the straddle attempt after it opened a position
C21_Witness ==
    /\ pc = "loop"
    /\ i = long_ma_period + 2
    /\ attempts = 2
    /\ Len(heap) = 1
    /\ last.op = "entry"
    /\ last.strategy = "Short Straddle"
    /\ last.result = "executed"
    /\ RuleSignal(SubSeq(underlying_data, 1, i - 1)) # "None"

(***************************************************************************)
(* _execute_trade applied once to a fresh ledger, with every label, one    *)
(* that is no strategy included, and every snapshot of up to MaxChain      *)
(* contracts.                                                              *)
(***************************************************************************)
TradeLabels == Strategies \cup {"Iron Condor"}
TradeCapitals == {50, 300}
TradeChains ==
    Chains \cup { Chain(opts) : opts \in SeqsUpTo(SelectOptions, MaxChain) }

InitTrade ==
    /\ underlying_data = << >>
    /\ vix_data = << >>
    /\ initial_capital \in TradeCapitals
    /\ cash = initial_capital
    /\ positions = << >>
    /\ trades = << >>
    /\ heap = << >>
    /\ pc = "start"
    /\ i = 1
    /\ prev_day = << >>
    /\ settle_log = << >>
    /\ attempts = 0
    /\ last = NoOp
    /\ probe = NoProbe

TradeCall ==
    /\ attempts = 0
    /\ \E strategy_type \in TradeLabels, option_chain \in TradeChains :
          /\ SetLedger(_execute_trade(L0, initial_capital, strategy_type,
                                      option_chain))
          /\ last' = EntryOp(L0, strategy_type, option_chain)
    /\ attempts' = attempts + 1
    /\ UNCHANGED << inputs, pc, i, prev_day, settle_log >>

NextTrade == TradeCall

SpecTrade == InitTrade /\ [][NextTrade]_vars

\* the contract of the type nearest to the target, the earliest of several
Closest(opts, option_type, target_delta) ==
    LET c == Candidates(opts, option_type)
    IN  IF c = {} THEN NoneOpt
        ELSE opts[CHOOSE k \in c :
                     \A j \in c :
                        \/ Distance(opts[k], target_delta)
                              < Distance(opts[j], target_delta)
                        \/ /\ Distance(opts[k], target_delta)
                                 = Distance(opts[j], target_delta)
                           /\ k <= j]

\* C22: a position created by an entry has the label of the call, one of the
\* three strategies, and exactly two legs.  Bull Put Spread: SELL the put
\* nearest 0.6, BUY the put nearest 0.3, premium sell ltp - buy ltp, margin
\* (sell strike - buy strike) - premium.  Bear Call Spread: SELL the call
\* nearest 0.6, BUY the call nearest 0.3, premium sell ltp - buy ltp, margin
\* (buy strike - sell strike) - premium.  Short Straddle: SELL the call and
\* SELL the put nearest 0.5, premium the sum of the two ltps, margin 20% of
\* the larger strike.  A call with any other label changes nothing.
C22_LegResolution ==
    [][ EntryStep =>
          LET opts == last'.option_chain.options_chain
              label == last'.strategy
              p == heap'[Len(heap')]
              one == p.legs[1].option
              two == p.legs[2].option
          IN  /\ label \notin Strategies => UNCHANGED ledger
              /\ Len(heap') > Len(heap) =>
                    /\ p.strategy = label
                    /\ label \in Strategies
                    /\ Len(p.legs) = 2
                    /\ p.legs[1].action = "SELL"
                    /\ label = "Bull Put Spread" =>
                          /\ one = Closest(opts, "PE", 6)
                          /\ two = Closest(opts, "PE", 3)
                          /\ p.legs[2].action = "BUY"
                          /\ p.entry_premium = one.ltp - two.ltp
                          /\ p.margin_required =
                                (one.strike_price - two.strike_price)
                                    - p.entry_premium
                    /\ label = "Bear Call Spread" =>
                          /\ one = Closest(opts, "CE", 6)
                          /\ two = Closest(opts, "CE", 3)
                          /\ p.legs[2].action = "BUY"
                          /\ p.entry_premium = one.ltp - two.ltp
                          /\ p.margin_required =
                                (two.strike_price - one.strike_price)
                                    - p.entry_premium
                    /\ label = "Short Straddle" =>
                          /\ one = Closest(opts, "CE", 5)
                          /\ two = Closest(opts, "PE", 5)
                          /\ p.legs[2].action = "SELL"
                          /\ p.entry_premium = one.ltp + two.ltp
                          /\ 100 * p.margin_required =
                                20 * (IF one.strike_price >= two.strike_price
                                      THEN one.strike_price
                                      ELSE two.strike_price) ]_vars

\* a straddle has been created on a call and a put of different strikes
C22_Witness ==
    /\ attempts = 1
    /\ last.result = "executed"
    /\ Len(heap) = 1
    /\ heap[1].strategy = "Short Straddle"
    /\ heap[1].legs[1].option.strike_price < heap[1].legs[2].option.strike_price

\* C23: at a candle whose index (from 0) is below the long moving-average
\* period the loop only moves on: no signal evaluation, no entry attempt, no
\* settlement, no change of the ledger; signals are evaluated only from the
\* index equal to that period on, on a prefix of at least period + 1 candles.
C23_LookbackFloor ==
    /\ [](pc \in {"dir", "nondir"} =>
             /\ i - 1 >= long_ma_period
             /\ Len(SubSeq(underlying_data, 1, i)) >= long_ma_period + 1)
    /\ [][ (pc = "loop" /\ i <= Len(underlying_data) /\ i - 1 < long_ma_period) =>
             /\ pc' = "loop"
             /\ i' = i + 1
             /\ UNCHANGED << ledger, attempts, settle_log, last, prev_day >> ]_vars
    /\ [][ EntryStep => i - 1 >= long_ma_period ]_vars
    /\ [][ (settle_log' # settle_log /\ i <= Len(underlying_data)) =>
             i - 1 >= long_ma_period ]_vars

\* the loop has passed every index below the period and stands at the signal
\* evaluation of the index equal to it, on period + 1 candles, with the
\* ledger as constructed
C23_Witness ==
    /\ pc = "dir"
    /\ i - 1 = long_ma_period
    /\ Len(SubSeq(underlying_data, 1, i)) = long_ma_period + 1
    /\ attempts = 0
    /\ settle_log = << >>
    /\ prev_day = << >>
    /\ heap = << >>
    /\ cash = initial_capital

\* C24: cash is never negative; equivalently the margin held by the open
\* positions never exceeds the initial capital plus the pnl of the closed ones.
C24_CashNonNegative ==
    /\ cash >= 0
    /\ OpenMargin(Len(positions)) <= initial_capital + ClosedPnl(Len(trades))

\* C25: in every state between two operations a position is in the open set
\* exactly when its status is OPEN; every position of the open set is in the
\* trade history, which holds every position ever created; every position of
\* the trade history outside the open set is CLOSED; and neither list holds a
\* position twice.
C25_OpenSetAgreesWithStatus ==
    /\ \A id \in 1..Len(heap) :
          (id \in Range(positions)) = (heap[id].status = "OPEN")
    /\ Range(positions) \subseteq Range(trades)
    /\ Range(trades) = 1..Len(heap)
    /\ \A id \in Range(trades) \ Range(positions) : heap[id].status = "CLOSED"
    /\ NoDuplicates(positions)
    /\ NoDuplicates(trades)

\* a settlement has closed one position and deferred another: the history
\* holds both, the open set only the deferred one
C25_Witness ==
    /\ last.op = "settle"
    /\ \E c \in last.closed, o \in last.deferred :
          /\ c \in Range(trades) \ Range(positions)
          /\ o \in Range(trades) \cap Range(positions)
          /\ heap[c].status = "CLOSED"
          /\ heap[o].status = "OPEN"

\* both legs of the spread named by the label resolve to one contract
Degenerate(label, option_chain) ==
    LET opts == option_chain.options_chain
        option_type == IF label = "Bull Put Spread" THEN "PE" ELSE "CE"
    IN  /\ label \in {"Bull Put Spread", "Bear Call Spread"}
        /\ option_chain.present
        /\ Closest(opts, option_type, 6) # NoneOpt
        /\ Closest(opts, option_type, 6) = Closest(opts, option_type, 3)

\* C26: an entry of a Bull Put Spread or a Bear Call Spread whose sell leg
\* (target 0.6) and buy leg (target 0.3) resolve to the same contract has a
\* margin of 0, is rejected by the funds test and changes nothing.
C26_DegenerateSpreadRejected ==
    [][ (EntryStep /\ Degenerate(last'.strategy, last'.option_chain)) =>
          /\ TradeTerms(last'.strategy, last'.option_chain).margin_required = 0
          /\ last'.result = "no_cash"
          /\ UNCHANGED ledger ]_vars

\* a Bull Put Spread was attempted on a snapshot with a single put among its
\* contracts and was rejected with the ledger as constructed
C26_Witness ==
    /\ attempts = 1
    /\ last.strategy = "Bull Put Spread"
    /\ Cardinality(Candidates(last.option_chain.options_chain, "PE")) = 1
    /\ Len(last.option_chain.options_chain) > 1
    /\ last.result = "no_cash"
    /\ heap = << >>
    /\ positions = << >>
    /\ cash = initial_capital

====
